---- MODULE Spec2Model ----
(***************************************************************************)
(* mdq (xapiary): the command dispatch of main() in src/main.rs.           *)
(*                                                                         *)
(* Update mode opens a writable index, walks every top-level path with a   *)
(* hidden-entry filter, indexes each parsable note file and commits once   *)
(* per top-level path.  The default invocation and the query subcommand    *)
(* open a read-only index and run the interactive session.                 *)
(*                                                                         *)
(* File names are sequences of characters, paths are sequences of names.   *)
(***************************************************************************)
EXTENDS Naturals, Sequences, FiniteSets, Bags

\* ---------------------------------------------------------------- bounds
MaxPaths == 2      \* top-level paths given to one update invocation
MaxRuns == 2       \* successive invocations of the program on one index
MaxQueries == 2    \* queries typed during one interactive session

\* ------------------------------------------------------------ file names
Dot == <<".">>
DotDot == <<".", ".">>
N == <<"n">>
AMd == <<"a", ".", "m", "d">>
BMd == <<"b", ".", "m", "d">>
CTxt == <<"c", ".", "t", "x", "t">>
R == <<"r">>
G == <<".", "g">>
DMd == <<"d", ".", "m", "d">>
HMd == <<".", "h", ".", "m", "d">>
U == <<"u">>
W == <<"w">>
FMd == <<"f", ".", "m", "d">>
H == <<".", "h">>
S == <<"s">>
EMd == <<"e", ".", "m", "d">>
Md == <<"m", "d">>

\* The directory tree below the working directory.  parses: the file has a
\* well-formed metadata header; readable: read_dir on the directory succeeds.
Tree ==
  { [path |-> <<>>,          dir |-> TRUE,  readable |-> TRUE,  parses |-> FALSE, children |-> <<N, H>>,                       terms |-> {}],
    [path |-> <<N>>,         dir |-> TRUE,  readable |-> TRUE,  parses |-> FALSE, children |-> <<AMd, BMd, CTxt, R, G, HMd, U, W>>, terms |-> {}],
    [path |-> <<N, AMd>>,    dir |-> FALSE, readable |-> TRUE,  parses |-> TRUE,  children |-> <<>>, terms |-> {"tag:foo", "run"}],
    [path |-> <<N, BMd>>,    dir |-> FALSE, readable |-> TRUE,  parses |-> FALSE, children |-> <<>>, terms |-> {}],
    [path |-> <<N, CTxt>>,   dir |-> FALSE, readable |-> TRUE,  parses |-> TRUE,  children |-> <<>>, terms |-> {"run"}],
    [path |-> <<N, R>>,      dir |-> FALSE, readable |-> TRUE,  parses |-> TRUE,  children |-> <<>>, terms |-> {"run"}],
    [path |-> <<N, G>>,      dir |-> TRUE,  readable |-> TRUE,  parses |-> FALSE, children |-> <<DMd>>, terms |-> {}],
    [path |-> <<N, G, DMd>>, dir |-> FALSE, readable |-> TRUE,  parses |-> TRUE,  children |-> <<>>, terms |-> {"run"}],
    [path |-> <<N, HMd>>,    dir |-> FALSE, readable |-> TRUE,  parses |-> TRUE,  children |-> <<>>, terms |-> {"run"}],
    [path |-> <<N, U>>,      dir |-> TRUE,  readable |-> FALSE, parses |-> FALSE, children |-> <<>>, terms |-> {}],
    [path |-> <<N, W>>,      dir |-> TRUE,  readable |-> TRUE,  parses |-> FALSE, children |-> <<FMd>>, terms |-> {}],
    [path |-> <<N, W, FMd>>, dir |-> FALSE, readable |-> TRUE,  parses |-> TRUE,  children |-> <<>>, terms |-> {"run"}],
    [path |-> <<H>>,         dir |-> TRUE,  readable |-> TRUE,  parses |-> FALSE, children |-> <<S>>, terms |-> {}],
    [path |-> <<H, S>>,      dir |-> TRUE,  readable |-> TRUE,  parses |-> FALSE, children |-> <<EMd>>, terms |-> {}],
    [path |-> <<H, S, EMd>>, dir |-> FALSE, readable |-> TRUE,  parses |-> TRUE,  children |-> <<>>, terms |-> {"tag:foo"}] }

\* The top-level paths a user may give to update.
PathArgs == { <<Dot>>, <<N>>, <<N, DotDot>>, <<H>>, <<H, S>>, <<N, AMd>> }

\* Query strings, as sequences of whitespace-separated tokens.
QTag == <<"tag:foo">>
QDangling == <<"tag:foo", "AND">>
QRun == <<"run">>
CliQueries == {QTag, QRun}
TypedQueries == {QTag, QDangling, QRun}
NoQuery == <<>>

\* --------------------------------------------------------- path helpers
RECURSIVE DropDots(_)
DropDots(p) ==
  IF p = <<>> THEN <<>>
  ELSE IF Head(p) = Dot THEN DropDots(Tail(p))
  ELSE <<Head(p)>> \o DropDots(Tail(p))

RECURSIVE Normalise(_, _)
Normalise(done, p) ==
  IF p = <<>> THEN done
  ELSE IF Head(p) = Dot THEN Normalise(done, Tail(p))
  ELSE IF Head(p) = DotDot /\ done # <<>>
         THEN Normalise(SubSeq(done, 1, Len(done) - 1), Tail(p))
  ELSE Normalise(Append(done, Head(p)), Tail(p))

\* The file a path names, relative to the working directory: "." stays in
\* place, ".." goes up one directory.
Resolve(p) == Normalise(<<>>, p)

Exists(p) == \E n \in Tree : n.path = Resolve(p)
Node(p) == CHOOSE n \in Tree : n.path = Resolve(p)

RECURSIVE Join(_)
\* The path as one string: its names separated by "/".
Join(p) ==
  IF p = <<>> THEN <<>>
  ELSE IF Len(p) = 1 THEN Head(p)
  ELSE Head(p) \o <<"/">> \o Join(Tail(p))

\* Path::file_name: the last normal component, none when the path ends in
\* ".." or is ".".  A trailing "." after other components is normalised away.
HasFileName(p) ==
  LET q == IF Len(p) > 1 THEN <<Head(p)>> \o DropDots(Tail(p)) ELSE p
  IN  q # <<>> /\ q[Len(q)] \notin {Dot, DotDot}

PathFileName(p) ==
  LET q == IF Len(p) > 1 THEN <<Head(p)>> \o DropDots(Tail(p)) ELSE p
  IN  q[Len(q)]

\* DirEntry::file_name: the path's file name, or the whole path when it has none.
file_name(p) == IF HasFileName(p) THEN PathFileName(p) ELSE Join(p)

starts_with(s, c) == s # <<>> /\ Head(s) = c

\* Positions of "." in a name.
DotsOf(s) == { i \in 1..Len(s) : s[i] = "." }
LastDot(s) == CHOOSE i \in DotsOf(s) : \A j \in DotsOf(s) : j <= i

\* Path::extension: the part of the file name after its last ".", none when
\* there is no file name, no "." in it, or the only "." is its first character.
HasExtension(p) ==
  /\ HasFileName(p)
  /\ DotsOf(PathFileName(p)) # {}
  /\ LastDot(PathFileName(p)) # 1

Extension(p) ==
  LET s == PathFileName(p)
  IN  SubSeq(s, LastDot(s) + 1, Len(s))

\* Faulty variant: the closure never finds a name hidden.
is_hiddenNever(p) == FALSE

\* The closure given to filter_entry finds a name hidden when it starts with
\* ".": e.file_name().to_str().map(|s| s.starts_with('.')).unwrap_or(false).
is_hidden(p) == starts_with(file_name(p), ".")

FilterPredicate(p) == ~is_hidden(p)

\* The extension test of the loop body: TRUE when the entry is skipped.
NotNote(p) == IF HasExtension(p) THEN Extension(p) # Md ELSE TRUE

\* Document::parse_file: succeeds on a regular file with a well-formed header.
parse_file(p) == Exists(p) /\ ~Node(p).dir /\ Node(p).parses

\* The term set of a parsed file.
TermsOf(p) == Node(p).terms

\* ------------------------------------------------------------ traversal
OkEntry(p) == [ok |-> TRUE, path |-> p]
ErrEntry(p) == [ok |-> FALSE, path |-> p]

RECURSIVE Visit(_), VisitAll(_, _)
\* WalkDir::new(p).into_iter().filter_entry(pred): the entries in the order
\* the iterator yields them.  The predicate sees every Ok entry, the root
\* included; a rejected directory is not descended into; errors pass through.
Visit(p) ==
  IF ~Exists(p) THEN <<ErrEntry(p)>>
  ELSE IF ~FilterPredicate(p) THEN <<>>
  ELSE <<OkEntry(p)>> \o
       (IF Node(p).dir
          THEN IF Node(p).readable THEN VisitAll(p, Node(p).children)
               ELSE <<ErrEntry(p)>>
          ELSE <<>>)

VisitAll(p, names) ==
  IF names = <<>> THEN <<>>
  ELSE Visit(p \o <<Head(names)>>) \o VisitAll(p, Tail(names))

Walk(root) == Visit(root)

\* ---------------------------------------------------------- index engine
\* The index is a bag of documents: a document is its key and its terms, and
\* the bag counts how many documents the engine stores with that content.
Doc(key, terms) == [key |-> key, terms |-> terms]
Docs(db) == BagToSet(db)
Keys(db) == { d.key : d \in Docs(db) }

\* The engine's add: one more document, whatever is stored.
AddDocument(db, key, terms) == db (+) SetToBag({Doc(key, terms)})

\* Faulty variant: update_index adds the document instead of replacing it.
ReplaceDocumentAppends(db, key, terms) == AddDocument(db, key, terms)

\* Document::update_index: every document stored under the document key is
\* replaced by the one document built from the file.
ReplaceDocument(db, key, terms) ==
  LET others == { d \in Docs(db) : d.key # key }
  IN  AddDocument([d \in others |-> db[d]], key, terms)

\* The document key of a note: its source file path as the walker yields it.
DocKey(p) == p

\* ---------------------------------------------------------------- state
VARIABLES
  run,         \* number of this invocation of the program
  subcommand,  \* cli.subcommand: "none", "update" or "query"
  paths,       \* Update { paths }
  query,       \* Query { query }
  pc,          \* position in main
  pathIdx,     \* index of the top-level path of the outer loop
  walker,      \* entries the walker of this path has yet to yield
  handle,      \* "none", "rw" (WritableDatabase) or "ro" (Database)
  working,     \* documents as the writable handle sees them
  committed,   \* documents durable on disk and visible to readers
  base,        \* committed, as it was when this invocation started
  log,         \* index calls, commits and reports of this invocation
  outcome,     \* "running", "ok", "err" (main returned Err), "panic"
  failure,     \* the call that failed fatally, "none" if none
  session,     \* state of the interactive session
  cur,         \* the query the session is evaluating
  firstQuery,  \* the first query the session evaluated
  nq,          \* number of queries the session has taken
  hits,        \* document keys of the result on display
  lastError    \* the error the session reported last

vars == <<run, subcommand, paths, query, pc, pathIdx, walker, handle, working,
          committed, base, log, outcome, failure, session, cur, firstQuery, nq,
          hits, lastError>>

cliVars == <<subcommand, paths, query>>
sessionVars == <<session, cur, firstQuery, nq, hits, lastError>>
walkVars == <<pathIdx, walker>>
dbVars == <<working, committed>>

RECURSIVE SeqsUpTo(_, _)
SeqsUpTo(set, n) ==
  IF n = 0 THEN {<<>>}
  ELSE LET shorter == SeqsUpTo(set, n - 1)
       IN  shorter \cup {<<x>> \o s : x \in set, s \in {t \in shorter : Len(t) = n - 1}}

IndexEvent(key, p, ok) == [op |-> "index", key |-> key, p |-> p, ok |-> ok]
CommitEvent(p, ok) == [op |-> "commit", key |-> <<>>, p |-> p, ok |-> ok]
ReportEvent(key, p) == [op |-> "report", key |-> key, p |-> p, ok |-> TRUE]

\* A fresh index directory, no invocation yet.
Init ==
  /\ run = 1
  /\ subcommand = "none"
  /\ paths = <<>>
  /\ query = NoQuery
  /\ pc = "parse_cli"
  /\ pathIdx = 0
  /\ walker = <<>>
  /\ handle = "none"
  /\ working = EmptyBag
  /\ committed = EmptyBag
  /\ base = EmptyBag
  /\ log = <<>>
  /\ outcome = "running"
  /\ failure = "none"
  /\ session = "none"
  /\ cur = NoQuery
  /\ firstQuery = NoQuery
  /\ nq = 0
  /\ hits = {}
  /\ lastError = "none"

\* Cli::parse(): one of the three forms of the command line.
ParseCli ==
  /\ pc = "parse_cli"
  /\ \/ /\ subcommand' = "none"
        /\ paths' = <<>>
        /\ query' = NoQuery
     \/ /\ subcommand' = "update"
        /\ paths' \in SeqsUpTo(PathArgs, MaxPaths)
        /\ query' = NoQuery
     \/ /\ subcommand' = "query"
        /\ paths' = <<>>
        /\ query' \in CliQueries
  /\ pc' = "dispatch"
  /\ UNCHANGED <<run, walkVars, handle, dbVars, base, log, outcome, failure, sessionVars>>

\* match cli.subcommand: the arm that runs.
Arm(sub) == IF sub = "update" THEN "open_writable" ELSE "open_reader"

Dispatch ==
  /\ pc = "dispatch"
  /\ pc' = Arm(subcommand)
  /\ UNCHANGED <<run, cliVars, walkVars, handle, dbVars, base, log, outcome, failure, sessionVars>>

\* ---------------------------------------------------------- update mode
\* WritableDatabase::new(..).expect(..): a failure to open panics.
OpenWritable ==
  /\ pc = "open_writable"
  /\ \/ /\ handle' = "rw"
        /\ working' = committed
        /\ pc' = "term_generator"
        /\ UNCHANGED <<outcome, failure>>
     \/ /\ outcome' = "panic"
        /\ failure' = "open"
        /\ pc' = "exit"
        /\ UNCHANGED <<handle, working>>
  /\ UNCHANGED <<run, cliVars, walkVars, committed, base, log, sessionVars>>

\* TermGenerator::new()?, Stem::new("en")?, tg.set_stemmer(..)?
TermGenerator ==
  /\ pc = "term_generator"
  /\ \/ /\ pc' = "for_path"
        /\ pathIdx' = 1
        /\ UNCHANGED <<handle, outcome, failure>>
     \/ /\ outcome' = "err"
        /\ failure' = "term_generator"
        /\ handle' = "none"
        /\ pc' = "exit"
        /\ UNCHANGED pathIdx
  /\ UNCHANGED <<run, cliVars, walker, dbVars, base, log, sessionVars>>

\* for path in paths: start the walker of the next path, or leave the loop
\* and return Ok(()), which drops the handle.
ForPath ==
  /\ pc = "for_path"
  /\ pathIdx <= Len(paths)
  /\ walker' = Walk(paths[pathIdx])
  /\ pc' = "walk"
  /\ UNCHANGED <<run, cliVars, pathIdx, handle, dbVars, base, log, outcome, failure, sessionVars>>

UpdateDone ==
  /\ pc = "for_path"
  /\ pathIdx > Len(paths)
  /\ outcome' = "ok"
  /\ handle' = "none"
  /\ pc' = "exit"
  /\ UNCHANGED <<run, cliVars, walkVars, dbVars, base, log, failure, sessionVars>>

\* Err(e) => eprintln!(..): a traversal error is reported, the loop goes on.
WalkError ==
  /\ pc = "walk"
  /\ walker # <<>>
  /\ ~Head(walker).ok
  /\ log' = Append(log, ReportEvent(Head(walker).path, pathIdx))
  /\ walker' = Tail(walker)
  /\ UNCHANGED <<run, cliVars, pc, pathIdx, handle, dbVars, base, outcome, failure, sessionVars>>

\* An entry without the note extension: continue.
SkipEntry ==
  /\ pc = "walk"
  /\ walker # <<>>
  /\ Head(walker).ok
  /\ NotNote(Head(walker).path)
  /\ walker' = Tail(walker)
  /\ UNCHANGED <<run, cliVars, pc, pathIdx, handle, dbVars, base, log, outcome, failure, sessionVars>>

\* Faulty variant: a parse failure is propagated like an index error.
ParseFailedAborts ==
  /\ pc = "walk"
  /\ walker # <<>>
  /\ Head(walker).ok
  /\ ~NotNote(Head(walker).path)
  /\ ~parse_file(Head(walker).path)
  /\ log' = Append(log, ReportEvent(Head(walker).path, pathIdx))
  /\ outcome' = "err"
  /\ failure' = "parse"
  /\ handle' = "none"
  /\ pc' = "exit"
  /\ UNCHANGED <<run, cliVars, walkVars, dbVars, base, sessionVars>>

\* parse_file failed: eprintln!(..), the loop goes on.
ParseFailed ==
  /\ pc = "walk"
  /\ walker # <<>>
  /\ Head(walker).ok
  /\ ~NotNote(Head(walker).path)
  /\ ~parse_file(Head(walker).path)
  /\ log' = Append(log, ReportEvent(Head(walker).path, pathIdx))
  /\ walker' = Tail(walker)
  /\ UNCHANGED <<run, cliVars, pc, pathIdx, handle, dbVars, base, outcome, failure, sessionVars>>

\* Faulty variant: db.commit() moved into the loop body, after each index call.
UpdateIndexOkCommitsEach ==
  /\ pc = "walk"
  /\ walker # <<>>
  /\ Head(walker).ok
  /\ ~NotNote(Head(walker).path)
  /\ parse_file(Head(walker).path)
  /\ working' = ReplaceDocument(working, DocKey(Head(walker).path), TermsOf(Head(walker).path))
  /\ committed' = working'
  /\ log' = log \o <<IndexEvent(DocKey(Head(walker).path), pathIdx, TRUE),
                     CommitEvent(pathIdx, TRUE)>>
  /\ walker' = Tail(walker)
  /\ UNCHANGED <<run, cliVars, pc, pathIdx, handle, base, outcome, failure, sessionVars>>

\* doc.update_index(&mut db, &mut tg)? succeeded.
UpdateIndexOk ==
  /\ pc = "walk"
  /\ walker # <<>>
  /\ Head(walker).ok
  /\ ~NotNote(Head(walker).path)
  /\ parse_file(Head(walker).path)
  /\ working' = ReplaceDocument(working, DocKey(Head(walker).path), TermsOf(Head(walker).path))
  /\ log' = Append(log, IndexEvent(DocKey(Head(walker).path), pathIdx, TRUE))
  /\ walker' = Tail(walker)
  /\ UNCHANGED <<run, cliVars, pc, pathIdx, handle, committed, base, outcome, failure, sessionVars>>

\* Faulty variant: the error of update_index is dropped instead of returned.
UpdateIndexErrIgnored ==
  /\ pc = "walk"
  /\ walker # <<>>
  /\ Head(walker).ok
  /\ ~NotNote(Head(walker).path)
  /\ parse_file(Head(walker).path)
  /\ log' = Append(log, IndexEvent(DocKey(Head(walker).path), pathIdx, FALSE))
  /\ walker' = Tail(walker)
  /\ UNCHANGED <<run, cliVars, pc, pathIdx, handle, dbVars, base, outcome, failure, sessionVars>>

\* doc.update_index(&mut db, &mut tg)? failed: main returns the error.
UpdateIndexErr ==
  /\ pc = "walk"
  /\ walker # <<>>
  /\ Head(walker).ok
  /\ ~NotNote(Head(walker).path)
  /\ parse_file(Head(walker).path)
  /\ log' = Append(log, IndexEvent(DocKey(Head(walker).path), pathIdx, FALSE))
  /\ outcome' = "err"
  /\ failure' = "index"
  /\ handle' = "none"
  /\ pc' = "exit"
  /\ UNCHANGED <<run, cliVars, walkVars, dbVars, base, sessionVars>>

\* Faulty variant: the commit at the end of the path is left out.
CommitOmitted ==
  /\ pc = "walk"
  /\ walker = <<>>
  /\ pathIdx' = pathIdx + 1
  /\ pc' = "for_path"
  /\ UNCHANGED <<run, cliVars, walker, handle, dbVars, base, log, outcome, failure, sessionVars>>

\* db.commit()? after the walker of the path is exhausted.
CommitOk ==
  /\ pc = "walk"
  /\ walker = <<>>
  /\ committed' = working
  /\ log' = Append(log, CommitEvent(pathIdx, TRUE))
  /\ pathIdx' = pathIdx + 1
  /\ pc' = "for_path"
  /\ UNCHANGED <<run, cliVars, walker, handle, working, base, outcome, failure, sessionVars>>

CommitErr ==
  /\ pc = "walk"
  /\ walker = <<>>
  /\ log' = Append(log, CommitEvent(pathIdx, FALSE))
  /\ outcome' = "err"
  /\ failure' = "commit"
  /\ handle' = "none"
  /\ pc' = "exit"
  /\ UNCHANGED <<run, cliVars, walkVars, dbVars, base, sessionVars>>

\* ----------------------------------------------------- interactive mode
\* Faulty variant: an interactive arm opens a WritableDatabase.
ReaderHandleWritable == "rw"

\* Database::new_with_path(&db_path, DB_CREATE_OR_OPEN)?: the handle both
\* interactive arms open.
ReaderHandle == "ro"

\* The query both arms hand to interactive::query(db, verbosity, "less", "vim"):
\* none, the Query arm binds its string to _.
SessionSeed(sub, q) == NoQuery

OpenReader ==
  /\ pc = "open_reader"
  /\ \/ /\ handle' = ReaderHandle
        /\ pc' = "session"
        /\ session' = IF SessionSeed(subcommand, query) = NoQuery THEN "Idle" ELSE "Evaluating"
        /\ cur' = SessionSeed(subcommand, query)
        /\ firstQuery' = SessionSeed(subcommand, query)
        /\ UNCHANGED <<outcome, failure>>
     \/ /\ outcome' = "err"
        /\ failure' = "open"
        /\ pc' = "exit"
        /\ UNCHANGED <<handle, session, cur, firstQuery>>
  /\ UNCHANGED <<run, cliVars, walkVars, dbVars, base, log, nq, hits, lastError>>

Operators == {"AND", "OR", "NOT"}

\* The query parser: a dangling operator and an empty input are syntax errors.
QuerySyntaxError(q) ==
  \/ q = <<>>
  \/ q[Len(q)] \in Operators
  \/ q[1] \in {"AND", "OR"}

\* Evaluation against committed terms: every operand of the conjunction matches.
Matches(doc, q) == \A i \in 1..Len(q) : q[i] \in Operators \/ q[i] \in doc.terms

\* Idle: the user types a query.
Submit ==
  /\ pc = "session"
  /\ session = "Idle"
  /\ nq < MaxQueries
  /\ \E q \in TypedQueries :
       /\ cur' = q
       /\ firstQuery' = IF firstQuery = NoQuery THEN q ELSE firstQuery
  /\ nq' = nq + 1
  /\ session' = "Evaluating"
  /\ UNCHANGED <<run, cliVars, pc, walkVars, handle, dbVars, base, log, outcome, failure, hits, lastError>>

\* Evaluating: the query parses and runs on the read-only handle.
Evaluate ==
  /\ pc = "session"
  /\ session = "Evaluating"
  /\ ~QuerySyntaxError(cur)
  /\ hits' = {d.key : d \in {e \in Docs(committed) : Matches(e, cur)}}
  /\ lastError' = "none"
  /\ session' = "Displaying"
  /\ UNCHANGED <<run, cliVars, pc, walkVars, handle, dbVars, base, log, outcome, failure, cur, firstQuery, nq>>

\* Evaluating: a syntax error is shown and the session is Idle again.
EvaluateSyntaxError ==
  /\ pc = "session"
  /\ session = "Evaluating"
  /\ QuerySyntaxError(cur)
  /\ hits' = {}
  /\ lastError' = "QuerySyntaxError"
  /\ session' = "Idle"
  /\ UNCHANGED <<run, cliVars, pc, walkVars, handle, dbVars, base, log, outcome, failure, cur, firstQuery, nq>>

\* Displaying: the user picks a hit, the viewer runs until it exits.
Select ==
  /\ pc = "session"
  /\ session = "Displaying"
  /\ hits # {}
  /\ session' = "Selected"
  /\ UNCHANGED <<run, cliVars, pc, walkVars, handle, dbVars, base, log, outcome, failure, cur, firstQuery, nq, hits, lastError>>

\* Displaying or Selected: back to Idle.
BackToIdle ==
  /\ pc = "session"
  /\ session \in {"Displaying", "Selected"}
  /\ session' = "Idle"
  /\ UNCHANGED <<run, cliVars, pc, walkVars, handle, dbVars, base, log, outcome, failure, cur, firstQuery, nq, hits, lastError>>

\* Idle: quit or end of input; main prints what the session returned.
Quit ==
  /\ pc = "session"
  /\ session = "Idle"
  /\ session' = "Exiting"
  /\ outcome' = "ok"
  /\ handle' = "none"
  /\ pc' = "exit"
  /\ UNCHANGED <<run, cliVars, walkVars, dbVars, base, log, failure, cur, firstQuery, nq, hits, lastError>>

\* ------------------------------------------------------ next invocation
\* The process has ended; the program is started again on the same index.
\* Only what is committed outlives the process.
Restart ==
  /\ pc = "exit"
  /\ run < MaxRuns
  /\ run' = run + 1
  /\ subcommand' = "none"
  /\ paths' = <<>>
  /\ query' = NoQuery
  /\ pc' = "parse_cli"
  /\ pathIdx' = 0
  /\ walker' = <<>>
  /\ handle' = "none"
  /\ working' = EmptyBag
  /\ base' = committed
  /\ log' = <<>>
  /\ outcome' = "running"
  /\ failure' = "none"
  /\ session' = "none"
  /\ cur' = NoQuery
  /\ firstQuery' = NoQuery
  /\ nq' = 0
  /\ hits' = {}
  /\ lastError' = "none"
  /\ UNCHANGED committed

Next ==
  \/ ParseCli
  \/ Dispatch
  \/ OpenWritable
  \/ TermGenerator
  \/ ForPath
  \/ UpdateDone
  \/ WalkError
  \/ SkipEntry
  \/ ParseFailed
  \/ UpdateIndexOk
  \/ UpdateIndexErr
  \/ CommitOk
  \/ CommitErr
  \/ OpenReader
  \/ Submit
  \/ Evaluate
  \/ EvaluateSyntaxError
  \/ Select
  \/ BackToIdle
  \/ Quit
  \/ Restart

Spec == Init /\ [][Next]_vars

\* ------------------------------------------------------------ log views
Events(op, p) == { i \in 1..Len(log) : log[i].op = op /\ log[i].p = p }
IndexCalls == { i \in 1..Len(log) : log[i].op = "index" }
IndexedOk == { i \in IndexCalls : log[i].ok }
UpdateExited == subcommand = "update" /\ pc = "exit"

\* A name is hidden when its first character is ".".
HiddenName(s) == s # <<>> /\ s[1] = "."

\* A name of the form <stem>.md with a non-empty stem.
NoteName(s) ==
  /\ Len(s) > 3
  /\ SubSeq(s, Len(s) - 2, Len(s)) = <<".", "m", "d">>

IsPrefix(s, t) == Len(s) <= Len(t) /\ SubSeq(t, 1, Len(s)) = s

RECURSIVE Replay(_, _)
\* The documents a store holds after the successful index calls of evs.
Replay(db, evs) ==
  IF evs = <<>> THEN db
  ELSE Replay(IF Head(evs).op = "index" /\ Head(evs).ok
                THEN ReplaceDocument(db, Head(evs).key, TermsOf(Head(evs).key))
                ELSE db,
              Tail(evs))

\* The events of the top-level paths before path k.
BatchesBefore(k) ==
  LET Earlier(e) == e.p < k
  IN  SelectSeq(log, Earlier)

\* ---------------------------------------------------------------- claims

\* C1: in update mode commit is called once per top-level path: never more
\* than once, exactly once for every path whose traversal has ended (so for
\* every path when the run completes), after every index call of that path
\* and before every index call of a later path; never once per file.
C1_CommitOncePerPath ==
  subcommand = "update" =>
    /\ \A i \in 1..Len(log) : log[i].op = "commit" => log[i].p \in 1..Len(paths)
    /\ \A p \in 1..Len(paths) :
         /\ Cardinality(Events("commit", p)) =
              (IF p < pathIdx \/ (p = pathIdx /\ failure = "commit") THEN 1 ELSE 0)
         /\ (pc = "exit" /\ outcome = "ok") => Cardinality(Events("commit", p)) = 1
         /\ \A c \in Events("commit", p) : \A i \in IndexCalls :
              (log[i].p <= p) <=> (i < c)

\* C1 witness: a completed update over two paths, two files indexed under the
\* first and one under the second.
C1_Witness ==
  /\ UpdateExited
  /\ outcome = "ok"
  /\ Len(paths) = 2
  /\ Cardinality(Events("index", 1)) = 2
  /\ Cardinality(Events("index", 2)) = 1

PerFileFailure(e) ==
  \/ ~e.ok
  \/ ~NotNote(e.path) /\ ~parse_file(e.path)

C2_State ==
  subcommand = "update" =>
    /\ \A r \in 1..Len(log) : log[r].op = "report" =>
         ~\E i \in IndexCalls : Resolve(log[i].key) = Resolve(log[r].key)
    /\ (pc = "exit" /\ outcome = "ok") =>
         \A p \in 1..Len(paths) :
           /\ \E c \in Events("commit", p) : log[c].ok
           /\ LET w == Walk(paths[p])
              IN  \A k \in 1..Len(w) :
                    IF PerFileFailure(w[k])
                      THEN \E r \in Events("report", p) : log[r].key = w[k].path
                      ELSE NotNote(w[k].path) \/
                           \E i \in Events("index", p) : log[i].key = w[k].path

C2_Step ==
  (pc = "walk" /\ walker # <<>> /\ PerFileFailure(Head(walker))) =>
    /\ pc' = "walk"
    /\ outcome' = "running"
    /\ walker' = Tail(walker)
    /\ pathIdx' = pathIdx
    /\ log' = Append(log, ReportEvent(Head(walker).path, pathIdx))

\* C2: in update mode a file whose header does not parse, or an entry the
\* traversal cannot read, is reported and nothing else: no index call is made
\* for it, the run goes on with the next entry of the same walker, and a run
\* without a fatal index error ends with every other note file indexed and
\* every path committed.
C2_PerFileFailureIsolated == []C2_State /\ [][C2_Step]_vars

\* C2 witness: a completed update in which a parse failure and a traversal
\* error were reported and a later file of the same path was indexed.
C2_Witness ==
  /\ UpdateExited
  /\ outcome = "ok"
  /\ \E r1, r2 \in 1..Len(log), i \in IndexCalls :
       /\ log[r1].op = "report" /\ log[r1].key = <<N, BMd>>
       /\ log[r2].op = "report" /\ log[r2].key = <<N, U>>
       /\ r1 < i /\ r2 < i
       /\ log[i].p = log[r1].p
       /\ \E c \in Events("commit", log[i].p) : c > i

\* C3: in update mode a failure to open the writable index, of an index call
\* or of a commit ends the invocation: the failed call is the last call made,
\* no further index call or commit follows, and the outcome is an error.
C3_FatalIndexFailure ==
  subcommand = "update" =>
    /\ (failure # "none" \/ \E i \in 1..Len(log) : ~log[i].ok) =>
         /\ pc = "exit"
         /\ outcome \in {"err", "panic"}
         /\ handle = "none"
         /\ \A i \in 1..Len(log) : ~log[i].ok =>
              i = Len(log) /\ failure = log[i].op
         /\ failure \in {"open", "term_generator"} => log = <<>>
         /\ failure \in {"index", "commit"} => log # <<>> /\ ~log[Len(log)].ok
    /\ outcome = "ok" => failure = "none"

\* C3 witness: an index call failed on the first of two paths with a note
\* file still to come in the same walker.
C3_Witness ==
  /\ UpdateExited
  /\ failure = "index"
  /\ outcome = "err"
  /\ Len(paths) = 2
  /\ pathIdx = 1
  /\ \E k \in 2..Len(walker) : walker[k].ok /\ ~NotNote(walker[k].path)

\* C4 as stated: no index call is ever made for a file inside a hidden
\* directory, for a hidden file, or for a file without the extension md.
C4_NoHiddenAnywhere ==
  \A i \in IndexCalls :
    LET f == Resolve(log[i].key)
    IN  /\ \A k \in 1..Len(f) : ~HiddenName(f[k])
        /\ NoteName(f[Len(f)])

\* C4 amended: no index call is ever made for a file under a top-level path
\* whose entry name is hidden (its last component, or the whole path string
\* when it is "." or ends in ".."), for a file inside a hidden directory below
\* the top-level path, for a hidden file, or for a file whose name is not
\* <stem>.md; no document of the index has a hidden or non-md file name.
\* Hidden directories above the top-level path do not count.
C4_NoHiddenBelowRoot ==
  /\ \A i \in IndexCalls :
       LET key == log[i].key
           root == paths[log[i].p]
       IN  /\ IsPrefix(root, key)
           /\ ~HiddenName(IF root[Len(root)] \in {Dot, DotDot} THEN Join(root)
                          ELSE root[Len(root)])
           /\ \A k \in (Len(root) + 1)..Len(key) : ~HiddenName(key[k])
           /\ NoteName(key[Len(key)])
  /\ \A d \in Docs(working) \cup Docs(committed) :
       ~HiddenName(d.key[Len(d.key)]) /\ NoteName(d.key[Len(d.key)])

\* C4 witness: a completed update over n, which holds a hidden directory with
\* a note, a hidden note and files without the extension md; a.md is indexed.
C4_Witness ==
  /\ UpdateExited
  /\ outcome = "ok"
  /\ \E p \in 1..Len(paths) :
       /\ paths[p] = <<N>>
       /\ \E i \in Events("index", p) : log[i].key = <<N, AMd>>
  /\ Keys(committed) \cap {<<N, G, DMd>>, <<N, HMd>>, <<N, CTxt>>, <<N, R>>} = {}

\* C5: a completed update has made an index call for every parsable md file
\* under each top-level path, whatever the name of the top-level path itself,
\* unless a hidden name lies strictly below the top-level path.
C5_AllNotesIndexed ==
  (UpdateExited /\ outcome = "ok") =>
    \A p \in 1..Len(paths) : \A n \in Tree :
      LET root == Resolve(paths[p])
      IN  ( /\ ~n.dir
            /\ n.parses
            /\ IsPrefix(root, n.path)
            /\ NoteName(n.path[Len(n.path)])
            /\ \A k \in (Len(root) + 1)..Len(n.path) : ~HiddenName(n.path[k]) )
          => \E i \in Events("index", p) : Resolve(log[i].key) = n.path

C7_CliQueryFirst ==
  (subcommand = "query" /\ firstQuery # NoQuery) => firstQuery = query

\* C8: in interactive mode the process never holds a writable handle, makes
\* no index call and no commit, and the committed index stays what it was
\* when the process started, whatever queries are evaluated.
C8_InteractiveReadOnly ==
  (subcommand # "update" /\ pc \notin {"parse_cli", "dispatch"}) =>
    /\ handle \in {"none", "ro"}
    /\ log = <<>>
    /\ committed = base

\* C8 witness: the session has reported a syntax error for "tag:foo AND" on
\* an index that holds documents.
C8_Witness ==
  /\ pc = "session"
  /\ handle = "ro"
  /\ cur = QDangling
  /\ lastError = "QuerySyntaxError"
  /\ committed # EmptyBag

====
